---------------------------- MODULE Spec2Model ----------------------------
(***************************************************************************)
(* The two training scripts of Galsim_JAX (scripts/VAE_Resnet_train_C.py   *)
(* and scripts/VAE_SD_C.py) and the helpers of galsim_jax/utils.py they    *)
(* call, as one state machine: setup, the training loop with its           *)
(* best-checkpoint bookkeeping and periodic evaluation, and finalization.  *)
(*                                                                         *)
(* Losses and log-likelihoods are floats in the code; here they are        *)
(* integers counting tenths (0.8 is 8, 1.0 is 10, 1e6 is 10000000).        *)
(* A mean is kept exact as the pair [sum, n]; the mean of no elements,     *)
(* which numpy returns as NaN, is [sum |-> 0, n |-> 0].                    *)
(***************************************************************************)
EXTENDS Integers, Sequences, FiniteSets, TLC

\* ------------------------------------------------------------------ bounds
\* Length of the (repeating) training dataset, in batches.
DataLen == 2
\* Largest number of batches in the held-out split.
MaxTestBatches == 2
\* Arrays are told apart by a content from 0..MaxLeaf; a list of a parameter
\* tree has at most MaxListLen elements.
MaxLeaf == 1
MaxListLen == 2
\* lr_schedule is applied at the steps 0..ScheduleWindow and at the steps up
\* to ScheduleWindow away from each of its boundaries.
ScheduleWindow == 4
\* Largest number of examples in a batch handed to loss_fn on its own.
MaxBatch == 2

\* ------------------------------------------------------- program constants
\* step % (config.steps // 50)
EvalDivisor == 50
\* if best_eval_loss < 1  (1.0, in tenths)
ActivationThreshold == 10
\* best_eval_loss = 1e6  (in tenths)
BestSentinel == 10000000

\* The keys of the table in get_activation_fn.
ActivationFunctions ==
    {"linear", "relu", "relu6", "elu", "gelu", "prelu", "leaky_relu",
     "hardtanh", "sigmoid", "tanh", "log_sigmoid", "softplus", "softsign",
     "swish"}
\* The keys of the tables in get_optimizer and new_optimizer.
OptimizerNames == {"adam", "adamw", "adafactor"}
\* The branches of loglikelihood_fn / loss_fn in VAE_SD_C.py.
NoiseModes == {"Fourier", "Pixel"}

\* ------------------------------------------------------------------ inputs
Scripts == {"Resnet", "SD"}
\* --training_steps
TrainingSteps == {1, 5, EvalDivisor - 1, EvalDivisor, 2 * EvalDivisor + 1}
\* --act_fn, --opt, --noise: one supported default and one unsupported name
\* each (both noise branches are kept).
ActFnFlags == {"gelu", "mish"}
OptFlags == {"adafactor", "sgd"}
NoiseFlags == NoiseModes \cup {"Poisson"}

\* What update() returns for a training batch: the loss and the auxiliary
\* negative mean log-likelihood.
Batch(l, ll) == [loss |-> l, ll |-> ll]
Batches == {Batch(30, 25), Batch(20, 19), Batch(8, 8), Batch(9, 5)}
\* The dataset whose training steps see the loss trace 5.0, 2.0, 3.0, 0.8,
\* 0.9: its first batch is the one setup pulls before the loop.
SpecTrace ==
    <<Batch(30, 25), Batch(50, 40), Batch(20, 19), Batch(30, 25), Batch(8, 8),
      Batch(9, 5)>>
Datasets == [1..DataLen -> Batches] \cup {SpecTrace}
\* The train split is repeated without end: the i-th batch pulled.
NextBatch(d, i) == d[((i - 1) % Len(d)) + 1]
\* What loss_fn returns for the i-th batch of the held-out split.
HeldOut(i) == Batch(10 * i + 2, 9 - (i % 4))

\* ------------------------------------------------------------- random keys
\* A key is the path of splits that derived it from a seed: the seed, the
\* number of leading first-children, then the remaining children (0 first,
\* 1 second).  Two keys are the same value iff their paths are equal.
PRNGKey(seed) == [root |-> seed, zeros |-> 0, tail |-> <<>>]
NoKey == [root |-> 0 - 1, zeros |-> 0, tail |-> <<>>]
SplitFirst(k) ==
    IF k.tail = <<>> THEN [k EXCEPT !.zeros = @ + 1]
    ELSE [k EXCEPT !.tail = Append(@, 0)]
SplitSecond(k) == [k EXCEPT !.tail = Append(@, 1)]

VARIABLES
    script, training_steps, act_fn, opt, noise, dset, nTest,
    pc, err, step,
    rng, rng_1, rng_2, usedKeys, reusedKeys,
    params, opt_state, updateCalls, pulled,
    losses, log_liks, lossParams,
    losses_test, losses_test_step, log_liks_test,
    best_eval_loss,
    for_list_mean, log_likelihood_test, testPos,
    ckptFile, registry, saveCalls,
    finalParams, best_step, best_step_log,
    arg, result

config == <<script, training_steps, act_fn, opt, noise, dset, nTest>>
keys == <<rng, rng_1, rng_2, usedKeys, reusedKeys>>
model == <<params, opt_state, updateCalls>>
trainTrace == <<losses, log_liks, lossParams>>
testTrace == <<losses_test, losses_test_step, log_liks_test>>
evalLocals == <<for_list_mean, log_likelihood_test, testPos>>
store == <<ckptFile, registry, saveCalls>>
report == <<finalParams, best_step, best_step_log>>
\* The argument and the returned value of a function applied on its own.
fn == <<arg, result>>
vars == <<config, pc, err, step, keys, model, pulled, trainTrace, testTrace,
          best_eval_loss, evalLocals, store, report, fn>>

\* No function is applied on its own during a run of a script.
NoCall == [fn |-> "none"]
NoResult == [fn |-> "none"]

\* An uncaught exception ends the process.
Raise(e) == pc' = "error" /\ err' = e

\* The keys consumed (passed to an init, a sample, an update or a split), in
\* order, against the keys consumed before: a key consumed again is recorded
\* in reused.
RECURSIVE Consume(_, _, _)
Consume(used, reused, ks) ==
    IF ks = <<>> THEN [used |-> used, reused |-> reused]
    ELSE Consume(used \cup {Head(ks)},
                 IF Head(ks) \in used THEN reused \cup {Head(ks)} ELSE reused,
                 Tail(ks))

\* The bookkeeping of one statement group: ks are consumed, and afterwards
\* the variables hold r, r1, r2.  A consumed key that no variable holds any
\* more cannot be passed again, and is dropped from usedKeys.
UseKeys(ks, r, r1, r2) ==
    LET c == Consume(usedKeys, reusedKeys, ks) IN
    /\ rng' = r
    /\ rng_1' = r1
    /\ rng_2' = r2
    /\ usedKeys' = c.used \cap {r, r1, r2}
    /\ reusedKeys' = c.reused

Init ==
    /\ script \in Scripts
    /\ training_steps \in TrainingSteps
    /\ act_fn \in ActFnFlags
    \* VAE_Resnet_train_C.py has no --opt and no --noise flag.
    /\ opt \in IF script = "SD" THEN OptFlags ELSE {"adam"}
    /\ noise \in IF script = "SD" THEN NoiseFlags ELSE {"Pixel"}
    /\ dset \in Datasets
    /\ nTest \in 0..MaxTestBatches
    /\ pc = "setup"
    /\ err = "none"
    /\ step = 0
    /\ rng = PRNGKey(0)
    /\ rng_1 = NoKey
    /\ rng_2 = IF script = "SD" THEN PRNGKey(1) ELSE NoKey
    /\ usedKeys = {}
    /\ reusedKeys = {}
    /\ params = 0
    /\ opt_state = 0
    /\ updateCalls = 0
    /\ pulled = 0
    /\ losses = <<>>
    /\ log_liks = <<>>
    /\ lossParams = <<>>
    /\ losses_test = <<>>
    /\ losses_test_step = <<>>
    /\ log_liks_test = <<>>
    /\ best_eval_loss = BestSentinel
    /\ for_list_mean = <<>>
    /\ log_likelihood_test = <<>>
    /\ testPos = 0
    /\ ckptFile = <<>>
    /\ registry = <<>>
    /\ saveCalls = <<>>
    /\ finalParams = <<>>
    /\ best_step = 0
    /\ best_step_log = 0
    /\ arg = NoCall
    /\ result = NoResult

\* ---------------------------------------------------------------- helpers
\* utils.get_activation_fn: the lookup raises for a name outside the table.
get_activation_fn(name) ==
    IF name \notin ActivationFunctions THEN "ValueError" ELSE "ok"

\* utils.get_optimizer: the lookup raises for a name outside the table.
get_optimizer(name) ==
    IF name \notin OptimizerNames THEN "ValueError" ELSE "ok"

\* utils.new_optimizer: the lookup raises for a name outside the table.
new_optimizer_unchecked(name) == "ok"
new_optimizer(name) ==
    IF name \notin OptimizerNames THEN "ValueError" ELSE "ok"

\* The optimizer a script builds at setup: VAE_Resnet_train_C.py chains adam
\* with lr_schedule itself, VAE_SD_C.py calls new_optimizer(FLAGS.opt, ...).
BuildOptimizer(s, name) ==
    IF s = "SD" THEN new_optimizer(name) ELSE "ok"

\* loss_fn of VAE_SD_C.py branches on FLAGS.noise when it is traced, which
\* is at its first call; the loss_fn of VAE_Resnet_train_C.py has no mode.
loss_fn_mode(s, mode) ==
    IF s = "SD" /\ mode \notin NoiseModes THEN "NotImplementedError" ELSE "ok"

\* update(params, ..): value_and_grad evaluates loss_fn on the parameters
\* passed in, and the parameters returned are those after the gradient step.
\* Parameters are named by the number of updates applied to them.
update_loss_on_new(p) == [loss_params |-> p + 1, new_params |-> p + 1]
update(p) == [loss_params |-> p, new_params |-> p + 1]

\* if loss < best_eval_loss
IsNewBest_or_equal(loss, best) == loss <= best
IsNewBest(loss, best) == loss < best

\* The floats loss_fn computes with: a finite value, an infinity or NaN, with
\* the arithmetic of IEEE 754 on them (0 * inf and inf - inf are NaN, NaN
\* spreads, NaN equals nothing).
F(v) == [k |-> "finite", v |-> v]
PosInf == [k |-> "inf", v |-> 1]
NegInf == [k |-> "inf", v |-> 0 - 1]
NaNf == [k |-> "nan", v |-> 0]
Sign(v) == IF v > 0 THEN 1 ELSE IF v < 0 THEN 0 - 1 ELSE 0
FNeg(a) == IF a.k = "nan" THEN a ELSE [a EXCEPT !.v = 0 - @]
FMul(a, b) ==
    IF a.k = "nan" \/ b.k = "nan" THEN NaNf
    ELSE IF a.k = "finite" /\ b.k = "finite" THEN F(a.v * b.v)
    ELSE IF a.v = 0 \/ b.v = 0 THEN NaNf
    ELSE [k |-> "inf", v |-> Sign(a.v) * Sign(b.v)]
FAdd(a, b) ==
    IF a.k = "nan" \/ b.k = "nan" THEN NaNf
    ELSE IF a.k = "finite" /\ b.k = "finite" THEN F(a.v + b.v)
    ELSE IF a.k = "inf" /\ b.k = "inf" THEN (IF a.v = b.v THEN a ELSE NaNf)
    ELSE IF a.k = "inf" THEN a ELSE b
FSub(a, b) == FAdd(a, FNeg(b))
FEq(a, b) == a.k # "nan" /\ b.k # "nan" /\ a = b
\* jnp.mean: the sum over the n elements, kept with n.
RECURSIVE FSum(_)
FSum(q) == IF q = <<>> THEN F(0) ELSE FAdd(Head(q), FSum(Tail(q)))
FMean(q) == [k |-> FSum(q).k, v |-> FSum(q).v, n |-> Len(q)]

\* loss_fn past the network: from the per-example log-likelihood and KL,
\*   elbo = log_likelihood - reg_term * kl;
\*   return -jnp.mean(elbo), -jnp.mean(log_likelihood)
loss_fn(reg_term, log_likelihood, kl) ==
    LET elbo == [i \in 1..Len(kl) |-> FSub(log_likelihood[i], FMul(reg_term, kl[i]))]
    IN  [loss |-> FNeg(FMean(elbo)), aux |-> FNeg(FMean(log_likelihood))]

\* utils.lr_schedule: the multiplier, in thousandths, is the entry of values
\* at the number of boundaries (in steps) that lie below the step passed,
\* which is the count of updates the optimizer has made.
ScheduleBoundaries ==
    LET steps_per_epoch == 12000 \div 28
    IN  [i \in 1..3 |-> <<40, 100, 160>>[i] * steps_per_epoch]
ScheduleValues == <<1000, 100, 10, 1>>
lr_schedule_boundaries_above(count) ==
    ScheduleValues[Cardinality({i \in 1..3 : ScheduleBoundaries[i] > count}) + 1]
lr_schedule_from_boundary(count) ==
    ScheduleValues[Cardinality({i \in 1..3 : ScheduleBoundaries[i] <= count}) + 1]
lr_schedule(count) ==
    LET boundaries == ScheduleBoundaries
        values == ScheduleValues
        index == Cardinality({i \in 1..3 : boundaries[i] < count})
    IN  values[index + 1]

\* The guard around save_checkpoint once a new best loss is recorded.
SaveGuard(s, best) ==
    IF s = "Resnet" THEN best < ActivationThreshold ELSE TRUE

\* step % (config.steps // 50) == 0, for a non-zero period.
EvalDue_previous_step(s, n) == (s - 1) % (n \div EvalDivisor) = 0
EvalDue(s, n) == s % (n \div EvalDivisor) = 0

\* np.mean of a list.
RECURSIVE SumSeq(_)
SumSeq(q) == IF q = <<>> THEN 0 ELSE Head(q) + SumSeq(Tail(q))
Mean_of_last(q) ==
    IF q = <<>> THEN [sum |-> 0, n |-> 0] ELSE [sum |-> q[Len(q)], n |-> 1]
Mean(q) == [sum |-> SumSeq(q), n |-> Len(q)]
NaN == [sum |-> 0, n |-> 0]

\* min(xs) and xs.index(min(xs)) + 1.
RECURSIVE MinSeq(_)
MinSeq(q) ==
    IF Len(q) = 1 THEN q[1]
    ELSE LET m == MinSeq(Tail(q)) IN IF q[1] <= m THEN q[1] ELSE m
IndexOf_last(q, v) ==
    CHOOSE i \in 1..Len(q) : q[i] = v /\ \A j \in (i + 1)..Len(q) : q[j] # v
IndexOf(q, v) == CHOOSE i \in 1..Len(q) : q[i] = v /\ \A j \in 1..(i - 1) : q[j] # v
BestStep(q) == IndexOf(q, MinSeq(q))

\* ------------------------------------------------------- checkpoint store
BestAlias == [tag |-> "best", step |-> 0]
StepAlias(n) == [tag |-> "step", step |-> n]

\* A parameter tree: an array (named by its content), a Python list of
\* trees, or a dict of trees under string keys.
Leaf(v) == [kind |-> "leaf", val |-> v, keys |-> <<>>, items |-> <<>>]
List(items) == [kind |-> "list", val |-> 0, keys |-> <<>>, items |-> items]
Dict(ks, items) == [kind |-> "dict", val |-> 0, keys |-> ks, items |-> items]
\* What from_state_dict raises a ValueError for.
Mismatch == [kind |-> "error", val |-> 0, keys |-> <<>>, items |-> <<>>]

\* The tree a script trains, after v updates: [params_enc, params_dec] in
\* VAE_Resnet_train_C.py, the variables of the one Autoencoder in VAE_SD_C.py.
ParamTree(s, v) ==
    IF s = "Resnet"
    THEN List(<<Dict(<<"params">>, <<Leaf(v)>>), Dict(<<"params">>, <<Leaf(v)>>)>>)
    ELSE Dict(<<"params">>, <<Leaf(v)>>)
RECURSIVE TreeVersion(_)
TreeVersion(t) == IF t.kind = "leaf" THEN t.val ELSE TreeVersion(t.items[1])

\* flax.serialization.to_state_dict: a list becomes a dict keyed by the
\* decimal index of each element, a dict keeps its keys, an array is kept.
RECURSIVE to_state_dict(_)
to_state_dict(t) ==
    IF t.kind = "leaf" THEN t
    ELSE Dict(IF t.kind = "list"
              THEN [i \in 1..Len(t.items) |-> ToString(i - 1)]
              ELSE t.keys,
              [i \in 1..Len(t.items) |-> to_state_dict(t.items[i])])

\* flax.serialization.msgpack_serialize: the bytes, as msgpack tokens: a map
\* header with its size followed by key and value of each entry, or an array
\* extension.
Tok(t, n, k) == [t |-> t, n |-> n, s |-> k]
RECURSIVE msgpack_serialize(_), PackEntries(_, _)
msgpack_serialize(sd) ==
    IF sd.kind = "leaf" THEN <<Tok("ext", sd.val, "")>>
    ELSE <<Tok("map", Len(sd.keys), "")>> \o PackEntries(sd, 1)
PackEntries(sd, i) ==
    IF i > Len(sd.keys) THEN <<>>
    ELSE <<Tok("str", 0, sd.keys[i])>> \o msgpack_serialize(sd.items[i])
             \o PackEntries(sd, i + 1)

\* flax.serialization.msgpack_restore: the state dict the bytes encode.
RECURSIVE Unpack(_), UnpackEntries(_, _)
Unpack(b) ==
    IF Head(b).t = "ext" THEN [val |-> Leaf(Head(b).n), rest |-> Tail(b)]
    ELSE LET r == UnpackEntries(Tail(b), Head(b).n) IN
         [val |-> Dict(r.keys, r.items), rest |-> r.rest]
UnpackEntries(b, n) ==
    IF n = 0 THEN [keys |-> <<>>, items |-> <<>>, rest |-> b]
    ELSE LET v == Unpack(Tail(b))
             more == UnpackEntries(v.rest, n - 1)
         IN  [keys |-> <<Head(b).s>> \o more.keys,
              items |-> <<v.val>> \o more.items,
              rest |-> more.rest]
msgpack_restore(b) == Unpack(b).val

\* flax.serialization.from_state_dict: the template decides the structure.
\* A dict takes the entry of each of its own keys, a list the entries "0",
\* "1", .. and only as many as it has elements; an array is replaced by
\* whatever the state holds in its place.
HasKey(sd, k) == \E i \in 1..Len(sd.keys) : sd.keys[i] = k
Entry(sd, k) == sd.items[CHOOSE i \in 1..Len(sd.keys) : sd.keys[i] = k]
RECURSIVE from_state_dict(_, _)
from_state_dict(target, sd) ==
    IF target.kind = "leaf" THEN sd
    ELSE LET ks == to_state_dict(target).keys IN
         IF \/ sd.kind # "dict"
            \/ \E i \in 1..Len(ks) : ~HasKey(sd, ks[i])
            \/ target.kind = "list" /\ Len(sd.keys) # Len(ks)
         THEN Mismatch
         ELSE [target EXCEPT !.items =
                  [i \in 1..Len(ks) |->
                      from_state_dict(target.items[i], Entry(sd, ks[i]))]]
RECURSIVE Raises(_)
Raises(t) ==
    t.kind = "error" \/ \E i \in 1..Len(t.items) : Raises(t.items[i])

\* flax.serialization.from_bytes(template, bytes).
from_bytes(template, bytes) == from_state_dict(template, msgpack_restore(bytes))

\* wandb.log_artifact(artifact, aliases): a new version of the run's
\* checkpoint artifact; each alias moves to it from the version that had it.
log_artifact_single_version(reg, content, aliases) ==
    <<[content |-> content, aliases |-> aliases]>>
log_artifact(reg, content, aliases) ==
    Append([i \in 1..Len(reg) |-> [reg[i] EXCEPT !.aliases = @ \ aliases]],
           [content |-> content, aliases |-> aliases])

\* The versions an alias resolves to (at most one).
Resolve(reg, alias) == {i \in 1..Len(reg) : alias \in reg[i].aliases}

\* utils.save_checkpoint, failing at stage failAt ("none": it succeeds). The
\* file is opened "wb", which truncates it before the write.
SaveStages == {"none", "write", "add_file", "log_artifact"}
save_checkpoint_alias_on_failure(file, reg, state, s, failAt) ==
    [file |-> IF failAt = "write" THEN <<>>
              ELSE <<msgpack_serialize(to_state_dict(state))>>,
     registry |-> IF failAt \in {"write", "add_file"} THEN reg
                  ELSE log_artifact(reg, msgpack_serialize(to_state_dict(state)),
                                    {BestAlias, StepAlias(s)}),
     raised |-> failAt # "none"]
save_checkpoint(file, reg, state, s, failAt) ==
    [file |-> IF failAt = "write" THEN <<>>
              ELSE <<msgpack_serialize(to_state_dict(state))>>,
     registry |-> IF failAt # "none" THEN reg
                  ELSE log_artifact(reg, msgpack_serialize(to_state_dict(state)),
                                    {BestAlias, StepAlias(s)}),
     raised |-> failAt # "none"]

\* utils.load_checkpoint: wandb.use_artifact("<run>-checkpoint:best") raises
\* when no version carries the alias; otherwise the version's file is read.
load_checkpoint_without_template(reg, state) ==
    IF Resolve(reg, BestAlias) = {} THEN [raised |-> TRUE, state |-> state]
    ELSE [raised |-> FALSE,
          state |-> msgpack_restore(
                 reg[CHOOSE i \in Resolve(reg, BestAlias) : TRUE].content)]
load_checkpoint(reg, state) ==
    IF Resolve(reg, BestAlias) = {} THEN [raised |-> TRUE, state |-> state]
    ELSE LET loaded == from_bytes(state,
                 reg[CHOOSE i \in Resolve(reg, BestAlias) : TRUE].content)
         IN  [raised |-> Raises(loaded), state |-> loaded]

\* Whether the script reloads the best checkpoint before reporting (the call
\* is commented out in VAE_SD_C.py).
ReloadsBest(s) == s = "Resnet"

\* ------------------------------------------------------------------ setup
\* act_fn = get_activation_fn(FLAGS.act_fn)
GetActivationFn ==
    /\ pc = "setup"
    /\ IF get_activation_fn(act_fn) = "ok"
       THEN pc' = "init" /\ err' = err
       ELSE Raise(get_activation_fn(act_fn))
    /\ UNCHANGED <<config, fn, step, keys, model, pulled, trainTrace, testTrace,
                   best_eval_loss, evalLocals, store, report>>

\* Parameter initialization, the probe batch and the first split.
\*   Resnet: Encoder.init(rng, ..); next(dset); rng, rng_1 = split(rng);
\*           Decoder.init(rng_1, ..)
\*   SD:     Autoencoder.init(rng, .., seed=rng_2); next(dset);
\*           rng_1, rng_2 = split(rng_2)
InitParams ==
    /\ pc = "init"
    /\ IF script = "Resnet"
       THEN UseKeys(<<rng, rng, SplitSecond(rng)>>,
                    SplitFirst(rng), SplitSecond(rng), rng_2)
       ELSE UseKeys(<<rng, rng_2, rng_2>>,
                    rng, SplitFirst(rng_2), SplitSecond(rng_2))
    /\ pulled' = pulled + 1
    /\ pc' = "optimizer"
    /\ UNCHANGED <<config, fn, err, step, model, trainTrace, testTrace,
                   best_eval_loss, evalLocals, store, report>>

\* The optimizer; binding the noise mode with functools.partial and jax.vmap
\* (VAE_SD_C.py) calls nothing and checks nothing.
SetupOptimizer ==
    /\ pc = "optimizer"
    /\ IF BuildOptimizer(script, opt) # "ok"
       THEN Raise(BuildOptimizer(script, opt))
       ELSE pc' = "train" /\ err' = err
    /\ UNCHANGED <<config, fn, step, keys, model, pulled, trainTrace, testTrace,
                   best_eval_loss, evalLocals, store, report>>

\* ---------------------------------------------------------- training loop
\* rng, rng_1 = split(rng); batch_im = next(dset); update(..);
\* losses.append(loss); log_liks.append(log_likelihood)
TrainStep ==
    /\ pc = "train"
    /\ step < training_steps
    /\ step' = step + 1
    /\ UseKeys(<<rng, SplitSecond(rng)>>, SplitFirst(rng), SplitSecond(rng), rng_2)
    /\ pulled' = pulled + 1
    /\ updateCalls' = updateCalls + 1
    /\ IF loss_fn_mode(script, noise) # "ok"
       THEN /\ Raise(loss_fn_mode(script, noise))
            /\ UNCHANGED <<params, opt_state, trainTrace>>
       ELSE /\ params' = update(params).new_params
            /\ opt_state' = opt_state + 1
            /\ lossParams' = Append(lossParams, update(params).loss_params)
            /\ losses' = Append(losses, NextBatch(dset, pulled + 1).loss)
            /\ log_liks' = Append(log_liks, NextBatch(dset, pulled + 1).ll)
            /\ pc' = "log"
            /\ err' = err
    /\ UNCHANGED <<config, fn, testTrace, best_eval_loss, evalLocals, store, report>>

\* wandb.log({"loss": .., "log_likelihood": ..}, step=step)
LogMetrics ==
    /\ pc = "log"
    /\ \E fails \in BOOLEAN :
         IF fails
         THEN Raise("WandbLogError")
         ELSE pc' = "checkpoint" /\ err' = err
    /\ UNCHANGED <<config, fn, step, keys, model, pulled, trainTrace, testTrace,
                   best_eval_loss, evalLocals, store, report>>

\* if loss < best_eval_loss: best_eval_loss = loss; [if best_eval_loss < 1:]
\*     save_checkpoint("checkpoint.msgpack", params, step)
SaveBest ==
    /\ pc = "checkpoint"
    /\ LET loss == losses[step] IN
       IF IsNewBest(loss, best_eval_loss)
       THEN /\ best_eval_loss' = loss
            /\ IF SaveGuard(script, loss)
               THEN \E failAt \in SaveStages :
                      LET r == save_checkpoint(ckptFile, registry,
                                               ParamTree(script, params),
                                               step, failAt) IN
                      /\ saveCalls' = Append(saveCalls, step)
                      /\ ckptFile' = r.file
                      /\ registry' = r.registry
                      /\ IF r.raised THEN Raise("SaveCheckpointError")
                         ELSE pc' = "evalgate" /\ err' = err
               ELSE /\ pc' = "evalgate"
                    /\ UNCHANGED <<err, store>>
       ELSE /\ pc' = "evalgate"
            /\ UNCHANGED <<err, best_eval_loss, store>>
    /\ UNCHANGED <<config, fn, step, keys, model, pulled, trainTrace, testTrace,
                   evalLocals, report>>

\* if step % (config.steps // 50) == 0: ... for_list_mean = []
EvalGate ==
    /\ pc = "evalgate"
    /\ IF training_steps \div EvalDivisor = 0
       THEN Raise("ZeroDivisionError") /\ UNCHANGED evalLocals
       ELSE IF EvalDue(step, training_steps)
       THEN /\ pc' = "eval"
            /\ for_list_mean' = <<>>
            /\ testPos' = 0
            /\ UNCHANGED <<err, log_likelihood_test>>
       ELSE /\ pc' = "train"
            /\ UNCHANGED <<err, evalLocals>>
    /\ UNCHANGED <<config, fn, step, keys, model, pulled, trainTrace, testTrace,
                   best_eval_loss, store, report>>

\* for img in test_iterator: rng, rng_1 = split(rng);
\*     loss_test, log_likelihood_test = loss_fn(params, rng_1, img, ..);
\*     for_list_mean.append(loss_test)
EvalBatch_with_update ==
    /\ pc = "eval"
    /\ testPos < nTest
    /\ testPos' = testPos + 1
    /\ UseKeys(<<rng, SplitSecond(rng)>>, SplitFirst(rng), SplitSecond(rng), rng_2)
    /\ for_list_mean' = Append(for_list_mean, HeldOut(testPos + 1).loss)
    /\ log_likelihood_test' = <<HeldOut(testPos + 1).ll>>
    /\ params' = update(params).new_params
    /\ opt_state' = opt_state + 1
    /\ UNCHANGED <<config, fn, pc, err, step, updateCalls, pulled, trainTrace,
                   testTrace, best_eval_loss, store, report>>
EvalBatch ==
    /\ pc = "eval"
    /\ testPos < nTest
    /\ testPos' = testPos + 1
    /\ UseKeys(<<rng, SplitSecond(rng)>>, SplitFirst(rng), SplitSecond(rng), rng_2)
    /\ for_list_mean' = Append(for_list_mean, HeldOut(testPos + 1).loss)
    /\ log_likelihood_test' = <<HeldOut(testPos + 1).ll>>
    /\ UNCHANGED <<config, fn, pc, err, step, model, pulled, trainTrace, testTrace,
                   best_eval_loss, store, report>>

\* losses_test.append(np.mean(for_list_mean)); losses_test_step.append(step);
\* log_liks_test.append(log_likelihood_test)
EvalRecord ==
    /\ pc = "eval"
    /\ testPos = nTest
    /\ losses_test' = Append(losses_test, Mean(for_list_mean))
    /\ losses_test_step' = Append(losses_test_step, step)
    /\ IF log_likelihood_test = <<>>
       THEN Raise("UnboundLocalError") /\ UNCHANGED log_liks_test
       ELSE /\ log_liks_test' = Append(log_liks_test, log_likelihood_test[1])
            /\ pc' = "evallog"
            /\ err' = err
    /\ UNCHANGED <<config, fn, step, keys, model, pulled, trainTrace,
                   best_eval_loss, evalLocals, store, report>>

\* wandb.log({"test_loss": .., "test_log_likelihood": ..}, step=step)
EvalLog ==
    /\ pc = "evallog"
    /\ \E fails \in BOOLEAN :
         IF fails
         THEN Raise("WandbLogError")
         ELSE pc' = "train" /\ err' = err
    /\ UNCHANGED <<config, fn, step, keys, model, pulled, trainTrace, testTrace,
                   best_eval_loss, evalLocals, store, report>>

\* ----------------------------------------------------------- finalization
\* [params = load_checkpoint("checkpoint.msgpack", params)];
\* best_step = losses.index(min(losses)) + 1; likewise for log_liks
Finalize ==
    /\ pc = "train"
    /\ step = training_steps
    /\ LET r == load_checkpoint(registry, ParamTree(script, params)) IN
       IF ReloadsBest(script) /\ r.raised
       THEN /\ Raise("LoadCheckpointError")
            /\ UNCHANGED <<params, best_step, best_step_log>>
       ELSE /\ params' = IF ReloadsBest(script) THEN TreeVersion(r.state)
                       ELSE params
            /\ best_step' = BestStep(losses)
            /\ best_step_log' = BestStep(log_liks)
            /\ pc' = "report"
            /\ err' = err
    /\ UNCHANGED <<config, fn, step, keys, opt_state, updateCalls, pulled,
                   trainTrace, testTrace, best_eval_loss, evalLocals, store,
                   finalParams>>

\* wandb.log(best_steps)
ReportBest ==
    /\ pc = "report"
    /\ \E fails \in BOOLEAN :
         IF fails
         THEN Raise("WandbLogError")
         ELSE pc' = "sample" /\ err' = err
    /\ UNCHANGED <<config, fn, step, keys, model, pulled, trainTrace, testTrace,
                   best_eval_loss, evalLocals, store, report>>

\* The final prediction over one held-out batch, with the parameters the
\* plots are made from.
\*   Resnet: z = q.sample(seed=rng_1); rng, rng_1 = split(rng);
\*           z = p.sample(seed=rng_1)
\*   SD:     rng, rng_1 = split(rng); Autoencoder.apply(.., seed=rng_1);
\*           rng, rng_1 = split(rng)
FinalSample ==
    /\ pc = "sample"
    /\ IF nTest = 0
       THEN Raise("StopIteration") /\ UNCHANGED <<keys, finalParams>>
       ELSE /\ IF script = "Resnet"
               THEN UseKeys(<<rng_1, rng, SplitSecond(rng)>>,
                            SplitFirst(rng), SplitSecond(rng), rng_2)
               ELSE UseKeys(<<rng, SplitSecond(rng), SplitFirst(rng)>>,
                            SplitFirst(SplitFirst(rng)),
                            SplitSecond(SplitFirst(rng)), rng_2)
            /\ finalParams' = <<params>>
            /\ pc' = "done"
            /\ err' = err
    /\ UNCHANGED <<config, fn, step, model, pulled, trainTrace, testTrace,
                   best_eval_loss, evalLocals, store, best_step, best_step_log>>

Next ==
    \/ GetActivationFn
    \/ InitParams
    \/ SetupOptimizer
    \/ TrainStep
    \/ LogMetrics
    \/ SaveBest
    \/ EvalGate
    \/ EvalBatch
    \/ EvalRecord
    \/ EvalLog
    \/ Finalize
    \/ ReportBest
    \/ FinalSample

Spec == Init /\ [][Next]_vars

\* ------------------------------------------ the functions of utils, alone
\* Parameter trees up to two levels of containers over arrays: lists of up
\* to MaxListLen arrays and dicts of arrays, and pairs or dicts of those.
Seqs(S, n) == UNION {[1..k -> S] : k \in 0..n}
KeySeqs == {<<>>, <<"params">>, <<"kernel">>, <<"kernel", "bias">>}
NodesOver(S, n) ==
    {List(q) : q \in Seqs(S, n)}
    \cup UNION {{Dict(ks, q) : q \in [1..Len(ks) -> S]} : ks \in KeySeqs}
Arrays == {Leaf(v) : v \in 0..MaxLeaf}
Layers == Arrays \cup NodesOver(Arrays, MaxListLen)
ParamTrees == Layers \cup NodesOver(Layers, Len(<<"enc", "dec">>))

\* The calls made: a tree saved and loaded back with itself as template.
CheckpointCalls == {[fn |-> "checkpoint", tree |-> t] : t \in ParamTrees}
\* The steps lr_schedule is applied at.
ScheduleSteps ==
    (0..ScheduleWindow)
    \cup UNION {(ScheduleBoundaries[i] - ScheduleWindow)
                   ..(ScheduleBoundaries[i] + ScheduleWindow) : i \in 1..3}
ScheduleCalls == {[fn |-> "lr_schedule", step |-> t] : t \in ScheduleSteps}
\* The batches loss_fn is applied to, as the log-likelihood and the KL term
\* of each example, under a zero and a non-zero --reg_value.
LogLikValues == {F(0 - 5), F(0 - 3)}
KlValues == {F(0), F(7), PosInf, NegInf, NaNf}
LossCalls ==
    UNION {[fn : {"loss_fn"}, reg_term : {F(0), F(1)},
            log_likelihood : [1..n -> LogLikValues], kl : [1..n -> KlValues]]
           : n \in 1..MaxBatch}
FnCalls == CheckpointCalls \cup ScheduleCalls \cup LossCalls

\* A process that has a wandb run and applies one function of utils; the
\* variables of the training scripts stay as they are before setup.
InitFn ==
    /\ script = "Resnet"
    /\ training_steps = EvalDivisor
    /\ act_fn = "gelu"
    /\ opt = "adam"
    /\ noise = "Pixel"
    /\ dset = SpecTrace
    /\ nTest = 0
    /\ pc = "call"
    /\ err = "none"
    /\ step = 0
    /\ rng = PRNGKey(0)
    /\ rng_1 = NoKey
    /\ rng_2 = NoKey
    /\ usedKeys = {}
    /\ reusedKeys = {}
    /\ params = 0
    /\ opt_state = 0
    /\ updateCalls = 0
    /\ pulled = 0
    /\ losses = <<>>
    /\ log_liks = <<>>
    /\ lossParams = <<>>
    /\ losses_test = <<>>
    /\ losses_test_step = <<>>
    /\ log_liks_test = <<>>
    /\ best_eval_loss = BestSentinel
    /\ for_list_mean = <<>>
    /\ log_likelihood_test = <<>>
    /\ testPos = 0
    /\ ckptFile = <<>>
    /\ registry = <<>>
    /\ saveCalls = <<>>
    /\ finalParams = <<>>
    /\ best_step = 0
    /\ best_step_log = 0
    /\ arg \in FnCalls
    /\ result = NoResult

\* save_checkpoint("checkpoint.msgpack", tree, step)
CallSaveCheckpoint ==
    /\ pc = "call"
    /\ arg.fn = "checkpoint"
    /\ \E failAt \in SaveStages :
          LET r == save_checkpoint(ckptFile, registry, arg.tree, step, failAt) IN
          /\ saveCalls' = Append(saveCalls, step)
          /\ ckptFile' = r.file
          /\ registry' = r.registry
          /\ IF r.raised THEN Raise("SaveCheckpointError")
             ELSE pc' = "saved" /\ err' = err
    /\ UNCHANGED <<config, fn, step, keys, model, pulled, trainTrace, testTrace,
                   best_eval_loss, evalLocals, report>>

\* load_checkpoint("checkpoint.msgpack", tree)
CallLoadCheckpoint ==
    /\ pc = "saved"
    /\ LET r == load_checkpoint(registry, arg.tree) IN
       /\ result' = [fn |-> "load_checkpoint", raised |-> r.raised, state |-> r.state]
       /\ IF r.raised THEN Raise("LoadCheckpointError")
          ELSE pc' = "returned" /\ err' = err
    /\ UNCHANGED <<config, arg, step, keys, model, pulled, trainTrace, testTrace,
                   best_eval_loss, evalLocals, store, report>>

\* lr_schedule(step)
CallLrSchedule ==
    /\ pc = "call"
    /\ arg.fn = "lr_schedule"
    /\ result' = [fn |-> "lr_schedule", step |-> arg.step,
                  value |-> lr_schedule(arg.step)]
    /\ pc' = "returned"
    /\ UNCHANGED <<config, arg, err, step, keys, model, pulled, trainTrace,
                   testTrace, best_eval_loss, evalLocals, store, report>>

\* lr_schedule(step) again, at a later step, as the optimizer calls it with
\* its growing count.
CallLrScheduleLater ==
    /\ pc = "returned"
    /\ arg.fn = "lr_schedule"
    /\ \E t \in ScheduleSteps :
          /\ t > arg.step
          /\ arg' = [arg EXCEPT !.step = t]
          /\ result' = [fn |-> "lr_schedule", step |-> t, value |-> lr_schedule(t)]
    /\ UNCHANGED <<config, pc, err, step, keys, model, pulled, trainTrace,
                   testTrace, best_eval_loss, evalLocals, store, report>>

\* loss_fn(params, rng_key, batch, reg_term)
CallLossFn ==
    /\ pc = "call"
    /\ arg.fn = "loss_fn"
    /\ LET r == loss_fn(arg.reg_term, arg.log_likelihood, arg.kl) IN
       result' = [fn |-> "loss_fn", loss |-> r.loss, aux |-> r.aux]
    /\ pc' = "returned"
    /\ UNCHANGED <<config, arg, err, step, keys, model, pulled, trainTrace,
                   testTrace, best_eval_loss, evalLocals, store, report>>

NextFn ==
    \/ CallSaveCheckpoint
    \/ CallLoadCheckpoint
    \/ CallLrSchedule
    \/ CallLrScheduleLater
    \/ CallLossFn

SpecFn == InitFn /\ [][NextFn]_vars

\* ------------------------------------------------------------- properties
\* The running best before step i: the minimum of the sentinel and all
\* earlier losses.
RunningBest(i) ==
    IF i = 1 THEN BestSentinel
    ELSE LET m == MinSeq(SubSeq(losses, 1, i - 1)) IN
         IF m < BestSentinel THEN m ELSE BestSentinel
Qualifies(i) == losses[i] < RunningBest(i) /\ losses[i] < ActivationThreshold
\* The steps whose checkpoint bookkeeping has run.
Bookkept ==
    IF pc \in {"log", "checkpoint"} \/ (pc = "error" /\ err = "WandbLogError")
    THEN Len(losses) - 1 ELSE Len(losses)
IOFailures == {"WandbLogError", "SaveCheckpointError", "LoadCheckpointError"}
SeqRange(q) == {q[i] : i \in 1..Len(q)}
BestResolvesToStep(s) ==
    /\ Resolve(registry, BestAlias) # {}
    /\ Resolve(registry, BestAlias) = Resolve(registry, StepAlias(s))

\* C1: in both scripts save_checkpoint is called at step s exactly when
\* loss_s is strictly below the running best and below the activation
\* threshold 1.0; a run over the loss trace 5.0, 2.0, 3.0, 0.8, 0.9 that no
\* I/O failure cuts short ends with exactly one save, at step 4, and the
\* "best" alias on step 4.
C1_SaveExactlyOnQualifyingBest ==
    /\ \A s \in SeqRange(saveCalls) : Qualifies(s)
    /\ \A s \in 1..Bookkept : Qualifies(s) => s \in SeqRange(saveCalls)
    /\ (/\ dset = SpecTrace
        /\ training_steps = 5
        /\ pc \in {"done", "error"}
        /\ err \notin IOFailures
        /\ get_activation_fn(act_fn) = "ok"
        /\ opt \in OptimizerNames
        /\ noise \in NoiseModes)
       => saveCalls = <<4>> /\ BestResolvesToStep(4)

\* C2: when save_checkpoint fails at any of its stages, the "best" alias
\* still resolves to the version of the previous successful save (to nothing
\* when there was none), load_checkpoint returns the parameters saved then,
\* and the failed step has no version.
C2_FailedSaveKeepsBest ==
    err = "SaveCheckpointError" =>
        LET n == Len(saveCalls) IN
        /\ Resolve(registry, StepAlias(saveCalls[n])) = {}
        /\ IF n = 1 THEN load_checkpoint(registry, ParamTree(script, params)).raised
           ELSE /\ BestResolvesToStep(saveCalls[n - 1])
                /\ load_checkpoint(registry, ParamTree(script, params)) =
                       [raised |-> FALSE,
                        state |-> ParamTree(script, saveCalls[n - 1])]
\* A save that failed after the local file was rewritten, with an earlier
\* successful save behind it.
C2_Witness ==
    /\ err = "SaveCheckpointError"
    /\ Len(saveCalls) >= 2
    /\ ckptFile = <<msgpack_serialize(to_state_dict(ParamTree(script, params)))>>
    /\ load_checkpoint(registry, ParamTree(script, params)).state
           # ParamTree(script, params)

\* C3: once finalization has passed its reload, the parameters in use and
\* those handed to reporting are the ones of the "best" checkpoint; a run
\* that persisted no checkpoint never gets there.
C3_ReportsBestCheckpointParams ==
    pc \in {"report", "sample", "done"} =>
        /\ ~load_checkpoint(registry, ParamTree(script, params)).raised
        /\ ParamTree(script, params)
               = load_checkpoint(registry, ParamTree(script, params)).state
        /\ finalParams
               \in {<<>>, <<TreeVersion(load_checkpoint(registry,
                                 ParamTree(script, params)).state)>>}

\* C4: with fewer than 50 configured steps the evaluation period is zero, no
\* evaluation is ever triggered, and the loop does not fail on the period.
C4_ZeroPeriodRunsToCompletion ==
    training_steps \div EvalDivisor = 0 =>
        /\ err # "ZeroDivisionError"
        /\ losses_test = <<>> /\ losses_test_step = <<>> /\ log_liks_test = <<>>

\* The evaluation period N // 50 and, at each point of an iteration, the last
\* step whose evaluation gate has been passed.
EvalPeriod == training_steps \div EvalDivisor
EvaluatedSteps ==
    IF pc \in {"log", "checkpoint", "evalgate", "eval"} THEN step - 1 ELSE step
\* The recorded steps are P, 2P, ... with none missing and none twice.
C5_Cadence ==
    training_steps >= EvalDivisor =>
        /\ \A i \in 1..Len(losses_test_step) : losses_test_step[i] = i * EvalPeriod
        /\ err = "none" =>
             /\ Len(losses_test_step) = EvaluatedSteps \div EvalPeriod
             /\ Len(losses_test) = Len(losses_test_step)
             /\ Len(log_liks_test) = Len(losses_test_step)
        /\ pc = "eval" => step % EvalPeriod = 0
\* An entry is appended only by the evaluation cycle of its own step, once
\* that step's update, trace append and bookkeeping are done.
C5_Order ==
    (training_steps >= EvalDivisor /\ losses_test_step' # losses_test_step) =>
        /\ pc = "eval"
        /\ losses_test_step' = Append(losses_test_step, step)
        /\ step % EvalPeriod = 0
        /\ updateCalls = step /\ Len(losses) = step /\ Len(log_liks) = step
        /\ best_eval_loss <= losses[step]
        /\ UNCHANGED <<updateCalls, losses, log_liks, step>>
\* C5: with N >= 50 and P = N // 50, an evaluation cycle runs at step s
\* exactly when s mod P = 0: the recorded evaluation steps are exactly the
\* multiples of P among the steps whose iteration has got that far, one entry
\* each, and the entry for step s is appended after that step's update, trace
\* append and checkpoint bookkeeping and before the update of step s + 1.
C5_EvalEveryPeriod == [](C5_Cadence) /\ [][C5_Order]_vars
\* A period of two: step 1 and step 3 were skipped, steps 2 and 4 recorded.
C5_Witness ==
    /\ EvalPeriod = 2
    /\ losses_test_step = <<2, 4>>
    /\ pc = "train"
    /\ step = 5

\* C6: an evaluation cycle over an empty held-out split never records a NaN
\* mean as the test loss and never fails on the undefined log-likelihood of a
\* batch that was not there.
C6_EmptySplitRecordsNothing ==
    nTest = 0 =>
        /\ NaN \notin SeqRange(losses_test)
        /\ err # "UnboundLocalError"

\* C7: a failure of wandb.log never ends the run.
C7_LogFailureSwallowed == ~(pc = "error" /\ err = "WandbLogError")

\* C8: with a noise mode that is neither "Pixel" nor "Fourier" the run fails
\* at setup: update is never called, the training loop is never entered, and
\* when the error is raised no batch has been pulled from the dataset.
C8_BadNoiseFailsAtSetup ==
    (script = "SD" /\ noise \notin NoiseModes)
    => /\ updateCalls = 0
       /\ pc \notin {"train", "log", "checkpoint", "evalgate", "eval", "evallog"}
       /\ pc = "error" /\ err = "NotImplementedError" => pulled = 0

\* C9: an optimizer name outside {adam, adamw, adafactor} or an activation
\* name outside the table makes setup fail with the lookup's ValueError
\* before any training step: no update call, no trace entry, no checkpoint.
C9_UnknownNameFailsSetup ==
    /\ \A name \in OptFlags \ OptimizerNames : get_optimizer(name) = "ValueError"
    /\ (act_fn \notin ActivationFunctions \/ (script = "SD" /\ opt \notin OptimizerNames))
       => /\ pc \in {"setup", "init", "optimizer", "error"}
          /\ pc = "error" => err = "ValueError"
          /\ updateCalls = 0 /\ params = 0 /\ opt_state = 0
          /\ losses = <<>> /\ log_liks = <<>>
          /\ saveCalls = <<>> /\ registry = <<>> /\ ckptFile = <<>>
\* new_optimizer refused the name, after the activation lookup succeeded.
C9_Witness ==
    /\ pc = "error" /\ err = "ValueError"
    /\ act_fn \in ActivationFunctions
    /\ opt \notin OptimizerNames
    /\ pulled = 1

\* C10: no random key is consumed twice.
C10_NoKeyConsumedTwice == reusedKeys = {}

\* q extends p by appended entries only.
IsPrefix(p, q) == Len(p) <= Len(q) /\ SubSeq(q, 1, Len(p)) = p

\* A step of an evaluation cycle: the gate opening it, a held-out batch, the
\* recording of the cycle, its logging.
EvalCycleStep == pc \in {"eval", "evallog"} \/ (pc = "evalgate" /\ pc' = "eval")

\* C11: an evaluation cycle leaves the parameters, the optimizer state with
\* its schedule counter, the running best loss, the stored checkpoints and
\* the train traces as they were; it only appends to the test traces and
\* moves the random state forward.
C11_EvalCycleFrame ==
    [][EvalCycleStep =>
          /\ UNCHANGED <<params, opt_state, updateCalls, best_eval_loss>>
          /\ UNCHANGED <<ckptFile, registry, saveCalls>>
          /\ UNCHANGED <<losses, log_liks, lossParams, step, pulled>>
          /\ IsPrefix(losses_test, losses_test')
          /\ IsPrefix(losses_test_step, losses_test_step')
          /\ IsPrefix(log_liks_test, log_liks_test')
          /\ testPos' > testPos => rng' = SplitFirst(rng) /\ rng_1' = SplitSecond(rng)
    ]_vars
\* A whole cycle over the held-out batches has been recorded in a run that
\* has a checkpoint stored.
C11_Witness ==
    /\ pc = "evallog"
    /\ testPos = MaxTestBatches
    /\ registry # <<>>
    /\ Len(losses_test) >= 2

\* The steps whose save_checkpoint call returned.
SuccessfulSaves ==
    IF err = "SaveCheckpointError" THEN SubSeq(saveCalls, 1, Len(saveCalls) - 1)
    ELSE saveCalls
\* The bytes save_checkpoint stored at step s: the tree after s updates.
SavedAt(s) == msgpack_serialize(to_state_dict(ParamTree(script, s)))

\* C12: after any sequence of successful saves, "best" resolves to the
\* parameters of the most recent one, and every step that saved still has
\* its own version under "step_N", holding the parameters saved then.
C12_AliasesAfterSaves ==
    LET ok == SuccessfulSaves IN
    /\ ok # <<>> =>
          /\ BestResolvesToStep(ok[Len(ok)])
          /\ load_checkpoint(registry, ParamTree(script, params))
                 = [raised |-> FALSE, state |-> ParamTree(script, ok[Len(ok)])]
    /\ \A i \in 1..Len(ok) :
          /\ Cardinality(Resolve(registry, StepAlias(ok[i]))) = 1
          /\ \A v \in Resolve(registry, StepAlias(ok[i])) :
                 registry[v].content = SavedAt(ok[i])
\* Three saves in one run, all successful.
C12_Witness ==
    /\ Len(saveCalls) >= 3
    /\ Len(registry) = Len(saveCalls)
    /\ err = "none"

\* C13: for every parameter tree of the bounded set, saving it and loading
\* it back with the tree itself as template returns a tree equal to it in
\* structure and in every array.
C13_SaveLoadRoundTrip ==
    (arg.fn = "checkpoint" /\ result # NoResult)
    => result = [fn |-> "load_checkpoint", raised |-> FALSE, state |-> arg.tree]
\* A pair of a list and a dict of distinct arrays came back.
C13_Witness ==
    /\ pc = "returned"
    /\ arg.fn = "checkpoint"
    /\ arg.tree = List(<<List(<<Leaf(0), Leaf(1)>>),
                         Dict(<<"kernel", "bias">>, <<Leaf(1), Leaf(0)>>)>>)
    /\ result.state = arg.tree

\* C14: lr_schedule returns one of 1.0, 0.1, 0.01, 0.001 at every step from
\* 0 on, and over growing steps the multiplier never grows.
C14_ScheduleNonIncreasing ==
    /\ [](result.fn = "lr_schedule" => result.value \in {1000, 100, 10, 1})
    /\ [][(result.fn = "lr_schedule" /\ result'.fn = "lr_schedule"
              /\ result'.step >= result.step)
           => result'.value <= result.value]_vars
\* The schedule has been applied past its second boundary.
C14_Witness ==
    /\ result.fn = "lr_schedule"
    /\ result.step > 100 * 428
    /\ result.value = 10

\* C15: with a regularisation coefficient of zero, the loss loss_fn returns
\* equals its second output, the negative mean log-likelihood, whatever the
\* KL term is, an infinite or undefined one included.
C15_ZeroRegLossIsLogLik ==
    (result.fn = "loss_fn" /\ arg.reg_term = F(0))
    => FEq(result.loss, result.aux)

\* i is the 1-based position of the first occurrence of the minimum of q.
FirstMinimumAt(q, i) ==
    /\ i \in 1..Len(q)
    /\ \A j \in 1..Len(q) : q[i] <= q[j]
    /\ \A j \in 1..(i - 1) : q[j] > q[i]

\* C16: at finalization best_step_loss is the 1-based step of the first
\* occurrence of the minimum of the train loss trace, and best_step_log_lik
\* likewise for the train log-likelihood trace.
C16_BestStepIsFirstMinimum ==
    pc \in {"report", "sample", "done"} =>
        /\ FirstMinimumAt(losses, best_step)
        /\ FirstMinimumAt(log_liks, best_step_log)
\* The minimum of the loss trace occurs again after the reported step, and
\* the two traces have their minimum at different steps.
C16_Witness ==
    /\ pc = "report"
    /\ best_step # best_step_log
    /\ \E j \in (best_step + 1)..Len(losses) : losses[j] = losses[best_step]
    /\ \E j \in (best_step_log + 1)..Len(log_liks) :
           log_liks[j] = log_liks[best_step_log]

\* C17: in every reachable state the train loss and train log-likelihood
\* traces have exactly as many entries as update calls have completed, and
\* the test loss, test step and test log-likelihood traces have equal
\* length, with strictly increasing recorded steps.
C17_TraceShapes ==
    /\ Len(losses) = opt_state
    /\ Len(log_liks) = opt_state
    /\ Len(losses_test) = Len(losses_test_step)
    /\ Len(log_liks_test) = Len(losses_test_step)
    /\ \A i \in 1..(Len(losses_test_step) - 1) :
           losses_test_step[i] < losses_test_step[i + 1]

\* C19: when at least one checkpoint was saved during the run, the step
\* tagged on the version "best" resolves to after the last training step is
\* the best_step_loss reported at finalization.
C19_BestAliasIsBestStep ==
    (pc \in {"report", "sample", "done"} /\ registry # <<>>)
    => /\ BestResolvesToStep(best_step)
       /\ saveCalls[Len(saveCalls)] = best_step
\* Several checkpoints were saved, and the minimum loss occurs again after
\* the step of the last one.
C19_Witness ==
    /\ pc = "report"
    /\ Len(registry) >= 2
    /\ \E j \in (best_step + 1)..Len(losses) : losses[j] = losses[best_step]

\* The parameters a version of the checkpoint holds, named by the number of
\* updates applied to them.
StoredParams(v) == TreeVersion(msgpack_restore(registry[v].content))

\* C20: the checkpoint saved at step s holds the parameters the update of
\* step s returned, while the loss that qualified it was computed on the
\* parameters before that update: the stored parameters, those under
\* "best" too, are one update newer than the ones that produced the loss.
C20_CheckpointOneUpdateNewer ==
    /\ \A i \in 1..Len(SuccessfulSaves) :
          \A v \in Resolve(registry, StepAlias(SuccessfulSaves[i])) :
             /\ StoredParams(v) = SuccessfulSaves[i]
             /\ StoredParams(v) = lossParams[SuccessfulSaves[i]] + 1
    /\ \A v \in Resolve(registry, BestAlias) :
          \E s \in 1..Len(losses) :
             /\ StepAlias(s) \in registry[v].aliases
             /\ losses[s] = RunningBest(s + 1)
             /\ StoredParams(v) = lossParams[s] + 1
\* A second checkpoint has just been saved.
C20_Witness ==
    /\ pc = "evalgate"
    /\ Len(registry) = 2
    /\ saveCalls[Len(saveCalls)] = step
    /\ step > 1

\* C18 as stated: with epoch = s / 428, the multiplier is 1.0 when epoch < 40,
\* 0.1 when 40 <= epoch < 100, 0.01 when 100 <= epoch < 160 and 0.001
\* otherwise, the steps 17120, 42800 and 68480 included.
C18_BoundaryStartsNextValue ==
    result.fn = "lr_schedule" =>
        result.value = IF result.step < 40 * 428 THEN 1000
                       ELSE IF result.step < 100 * 428 THEN 100
                       ELSE IF result.step < 160 * 428 THEN 10
                       ELSE 1
\* C18: with epoch = s / 428, the multiplier is 1.0 when epoch <= 40, 0.1 when
\* 40 < epoch <= 100, 0.01 when 100 < epoch <= 160 and 0.001 when
\* epoch > 160: a step exactly on a boundary still gets the earlier value.
C18_BoundaryKeepsEarlierValue ==
    result.fn = "lr_schedule" =>
        result.value = IF result.step <= 40 * 428 THEN 1000
                       ELSE IF result.step <= 100 * 428 THEN 100
                       ELSE IF result.step <= 160 * 428 THEN 10
                       ELSE 1
\* The schedule applied exactly at the first boundary.
C18_Witness ==
    /\ result.fn = "lr_schedule"
    /\ result.step = 17120
    /\ result.value = 1000

\* The losses loss_fn returns over the first n batches of the held-out split.
HeldOutLosses(n) == [i \in 1..n |-> HeldOut(i).loss]

\* C21: in an evaluation cycle over a held-out split of one or more batches
\* every batch is evaluated exactly once, the recorded test loss is the mean
\* of the per-batch losses, and the recorded test log-likelihood is the value
\* returned for the last batch only.
C21_TestLossMeanLogLikLast ==
    LET mean == [sum |-> SumSeq(HeldOutLosses(nTest)), n |-> nTest]
        last == HeldOut(nTest).ll
    IN  nTest >= 1 =>
        /\ pc = "eval" => testPos <= nTest /\ for_list_mean = HeldOutLosses(testPos)
        /\ pc = "evallog" => testPos = nTest /\ for_list_mean = HeldOutLosses(nTest)
        /\ \A i \in 1..Len(losses_test) : losses_test[i] = mean
        /\ \A i \in 1..Len(log_liks_test) : log_liks_test[i] = last
\* A cycle over several batches has been recorded, and the log-likelihood
\* it recorded is not the mean of the per-batch log-likelihoods.
C21_Witness ==
    /\ pc = "evallog"
    /\ nTest = MaxTestBatches
    /\ log_liks_test # <<>>
    /\ log_liks_test[Len(log_liks_test)] * nTest
           # SumSeq([i \in 1..nTest |-> HeldOut(i).ll])
    /\ losses_test[Len(losses_test)].n = nTest

=============================================================================
